---- MODULE Spec2Model ----
(***************************************************************************)
(* State-machine model of SudokuSolver (src/src/solver.py) and of the      *)
(* SudokuValidator oracle its tests use (src/src/validator.py).            *)
(*                                                                         *)
(* Indices are 1-based here (TLA+ sequences) and 0-based in the source:    *)
(* cell (r, c) of the model is grid[r-1][c-1] of the program.              *)
(*                                                                         *)
(* A Python grid object is the record                                      *)
(*   [isNone |-> BOOLEAN, rows |-> <<row, ...>>, nonInt |-> {<<r, c>>}]    *)
(* isNone says the object is None, rows is the list of lists, and nonInt   *)
(* holds the positions whose cell is not an int (a str, a float): TLC      *)
(* cannot hold an integer and a string in one tuple, so the cell's type is *)
(* kept beside its value, and the value at such a position is never read.  *)
(***************************************************************************)
EXTENDS Integers, Sequences, FiniteSets, TLC

\* ------------------------------------------------------------ constants

\* The side of the grid: `len(grid) != 9`, `range(9)`.
N == 9

\* The side of a box: `3 * (row // 3)`, `range(3)`.
BoxSize == 3

\* `max_iterations = 10` of _preprocess.
max_iterations == 10

\* The default of the constructor's max_backtracks.
DefaultMaxBacktracks == 1000000

\* ---------------------------------------------------------------- bounds

\* solve calls made on one SudokuSolver instance in a behaviour.
MaxCalls == 3

\* The small max_backtracks budget a solver may be constructed with, beside
\* the default.
SmallBudget == 1

Idx == 1..N

Digits == 1..9

Cells == Idx \X Idx

\* ------------------------------------------------------- grids as values

NoneGrid == [isNone |-> TRUE, rows |-> <<>>, nonInt |-> {}]

ListGrid(rows) == [isNone |-> FALSE, rows |-> rows, nonInt |-> {}]

\* A completed grid the inputs are cut from.
BaseGrid ==
  [r \in Idx |-> [c \in Idx |->
     ((3 * ((r - 1) % 3) + ((r - 1) \div 3) + (c - 1)) % 9) + 1]]

ZeroGrid == [r \in Idx |-> [c \in Idx |-> 0]]

\* rows with the cells of `changes` (a set of <<r, c, v>>) overwritten.
With(rows, changes) ==
  [r \in Idx |-> [c \in Idx |->
     IF \E ch \in changes : ch[1] = r /\ ch[2] = c
     THEN (CHOOSE ch \in changes : ch[1] = r /\ ch[2] = c)[3]
     ELSE rows[r][c]]]

\* rows with the cells of `blanks` (a set of <<r, c>>) emptied.
Blank(rows, blanks) == With(rows, {<<b[1], b[2], 0>> : b \in blanks})

\* ------------------------------------------------------ SudokuValidator

\* is_complete: no cell is 0.
is_complete(rows) == \A r \in Idx : \A c \in Idx : rows[r][c] # 0

\* `sorted(xs) == list(range(1, 10))` for a list xs of 9 cells: the list is
\* a permutation of 1..9.
IsPermutation(xs) ==
  /\ Len(xs) = 9
  /\ \A d \in Digits : Cardinality({i \in 1..Len(xs) : xs[i] = d}) = 1

BoxCells(box_row, box_col) ==
  [i \in 1..(BoxSize * BoxSize) |->
     <<box_row * BoxSize + ((i - 1) \div BoxSize) + 1,
       box_col * BoxSize + ((i - 1) % BoxSize) + 1>>]

\* _check_constraints: every row, column and box sorts to 1..9.
_check_constraints(rows) ==
  /\ \A r \in Idx : IsPermutation(rows[r])
  /\ \A c \in Idx : IsPermutation([r \in Idx |-> rows[r][c]])
  /\ \A box_row \in 0..(BoxSize - 1) : \A box_col \in 0..(BoxSize - 1) :
       IsPermutation([i \in 1..(BoxSize * BoxSize) |->
          rows[BoxCells(box_row, box_col)[i][1]][BoxCells(box_row, box_col)[i][2]]])

is_valid_solution(rows) == is_complete(rows) /\ _check_constraints(rows)

\* ------------------------------------------------- SudokuSolver, pure part

\* One `seen` loop of _is_valid_state over the cells xs (a sequence): FALSE
\* when a nonzero cell is met a second time.
NoRepeat(xs) ==
  \A i \in 1..Len(xs) : \A j \in 1..Len(xs) :
     (i < j /\ xs[i] # 0) => xs[i] # xs[j]

\* Fault variant of _is_valid_state: the box loops (lines 85-95) left out.
IsValidStateNoBoxes(rows) ==
  /\ \A r \in Idx : NoRepeat(rows[r])
  /\ \A c \in Idx : NoRepeat([r \in Idx |-> rows[r][c]])

\* _is_valid_state without its counter: rows, then columns, then boxes.
_is_valid_state(rows) ==
  /\ \A r \in Idx : NoRepeat(rows[r])
  /\ \A c \in Idx : NoRepeat([r \in Idx |-> rows[r][c]])
  /\ \A box_row \in 0..(BoxSize - 1) : \A box_col \in 0..(BoxSize - 1) :
       NoRepeat([i \in 1..(BoxSize * BoxSize) |->
          rows[BoxCells(box_row, box_col)[i][1]][BoxCells(box_row, box_col)[i][2]]])

\* The format checks of _is_valid_input, lines 50-58: the grid is truthy, has
\* 9 rows, each row is truthy and has 9 cells, each cell is an int in 0..9.
FormatOk(g) ==
  /\ ~g.isNone
  /\ Len(g.rows) # 0
  /\ Len(g.rows) = N
  /\ \A r \in 1..Len(g.rows) :
       /\ Len(g.rows[r]) # 0
       /\ Len(g.rows[r]) = N
       /\ \A c \in 1..Len(g.rows[r]) :
            /\ <<r, c>> \notin g.nonInt
            /\ g.rows[r][c] >= 0
            /\ g.rows[r][c] <= 9

\* _is_valid_input: the format checks, then _is_valid_state(grid).
_is_valid_input(g) == FormatOk(g) /\ _is_valid_state(g.rows)

\* The 0-based first row (column) of the box of r, as `3 * (row // 3)`.
BoxStart(r) == BoxSize * ((r - 1) \div BoxSize)

\* Fault variant of _get_possible_values: the box loops (lines 185-188)
\* left out.
GetPossibleValuesNoBox(rows, row, col) ==
  IF rows[row][col] # 0 THEN {}
  ELSE Digits \ (({rows[row][c] : c \in Idx} \cup {rows[r][col] : r \in Idx})
                   \ {0})

\* _get_possible_values: {} for a filled cell, else 1..9 minus the values of
\* the row, the column and the box.
_get_possible_values(rows, row, col) ==
  IF rows[row][col] # 0 THEN {}
  ELSE LET used_values ==
             ({rows[row][c] : c \in Idx}
                \cup {rows[r][col] : r \in Idx}
                \cup {rows[r][c] : r \in (BoxStart(row) + 1)..(BoxStart(row) + BoxSize),
                                   c \in (BoxStart(col) + 1)..(BoxStart(col) + BoxSize)})
               \ {0}
       IN  Digits \ used_values

\* The cell at position idx (0..80) of the row-major scan
\* `for row in range(9): for col in range(9)`.
ScanCell(idx) == <<(idx \div N) + 1, (idx % N) + 1>>

\* One step of the scan loop of _find_best_cell (lines 205-214) at cell
\* (row, col), on the loop's state acc = [early, min_options, candidates,
\* cell, options]: candidates is a sequence of <<row, col, options>>, early
\* says the loop has returned from inside (line 214), with cell and options.
\* The early return sits in the `elif` branch: it is taken by a cell that
\* EQUALS a minimum of 0 found before it, never by the first such cell.
ScanStep(rows, row, col, acc) ==
  IF rows[row][col] # 0 THEN acc
  ELSE LET options == _get_possible_values(rows, row, col)
           n == Cardinality(options)
       IN  IF n < acc.min_options
           THEN [acc EXCEPT !.min_options = n,
                            !.candidates = << <<row, col, options>> >>]
           ELSE IF n = acc.min_options
           THEN IF acc.min_options = 0
                THEN [acc EXCEPT !.early = TRUE, !.cell = <<row, col>>,
                                 !.options = options]
                ELSE [acc EXCEPT !.candidates =
                                    Append(@, <<row, col, options>>)]
           ELSE acc

\* `for col in range(9)` from col on, in one row; the loop stops at the
\* return from inside.
RECURSIVE ScanColumns(_, _, _, _)
ScanColumns(rows, row, col, acc) ==
  IF col > N THEN acc
  ELSE LET after == ScanStep(rows, row, col, acc)
       IN  IF after.early THEN after
           ELSE ScanColumns(rows, row, col + 1, after)

\* `for row in range(9)` from row on.
RECURSIVE ScanRows(_, _, _)
ScanRows(rows, row, acc) ==
  IF row > N THEN acc
  ELSE LET after == ScanColumns(rows, row, 1, acc)
       IN  IF after.early THEN after
           ELSE ScanRows(rows, row + 1, after)

\* The `constraints` count of _apply_degree_heuristic for one cell: empty
\* cells of its column, of its row and of its box, the cell itself left out
\* of each, a box cell that shares the row or the column counted again.
DegreeOf(rows, row, col) ==
  Cardinality({r \in Idx : r # row /\ rows[r][col] = 0})
  + Cardinality({c \in Idx : c # col /\ rows[row][c] = 0})
  + Cardinality({rc \in ((BoxStart(row) + 1)..(BoxStart(row) + BoxSize))
                          \X ((BoxStart(col) + 1)..(BoxStart(col) + BoxSize)) :
                   (rc[1] # row \/ rc[2] # col) /\ rows[rc[1]][rc[2]] = 0})

\* _apply_degree_heuristic: the first candidate whose count is strictly
\* above every earlier one's (`constraints > max_constraints`, from -1).
_apply_degree_heuristic(rows, candidates) ==
  LET deg(i) == DegreeOf(rows, candidates[i][1], candidates[i][2])
      best == CHOOSE i \in 1..Len(candidates) :
                /\ \A j \in 1..Len(candidates) : deg(j) <= deg(i)
                /\ \A j \in 1..(i - 1) : deg(j) < deg(i)
  IN  candidates[best]

\* _find_best_cell: [cell |-> <<row, col>> or <<>> (None), options |-> set].
_find_best_cell(rows) ==
  LET scan == ScanRows(rows, 1,
                 [early |-> FALSE, min_options |-> 10, candidates |-> <<>>,
                  cell |-> <<>>, options |-> {}])
  IN  IF scan.early THEN [cell |-> scan.cell, options |-> scan.options]
      ELSE IF Len(scan.candidates) = 0 THEN [cell |-> <<>>, options |-> {}]
      ELSE IF Len(scan.candidates) > 1
      THEN LET best_candidate == _apply_degree_heuristic(rows, scan.candidates)
           IN  [cell |-> <<best_candidate[1], best_candidate[2]>>,
                options |-> best_candidate[3]]
      ELSE [cell |-> <<scan.candidates[1][1], scan.candidates[1][2]>>,
            options |-> scan.candidates[1][3]]

\* The slot of digit v in the 8-slot hash table CPython builds for a set of
\* at most 4 small ints inserted in ascending order: hash(v) & 7, and for 9,
\* which collides with 1, the first free slot of the probe sequence
\* i -> (5 * i + 1) & 7.
RECURSIVE Probe(_, _)
Probe(i, taken) == IF i \in taken THEN Probe((5 * i + 1) % 8, taken) ELSE i

SlotOf(v, options) ==
  IF v <= 7 THEN v
  ELSE IF v = 8 THEN 0
  ELSE Probe(1, (options \cap 1..7) \cup (IF 8 \in options THEN {0} ELSE {}))

\* The order in which the interpreter iterates the set `options` built at
\* line 193 (`{1..9} - used_values`): ascending for 5 elements or more (the
\* table was resized, every digit sits in its own slot), by slot for fewer.
SetIter(options) ==
  LET n == Cardinality(options)
      key(v) == IF n >= 5 THEN v ELSE SlotOf(v, options)
  IN  [i \in 1..n |->
         CHOOSE v \in options : Cardinality({w \in options : key(w) < key(v)}) = i - 1]

\* _get_ordered_values: `sorted(options, key=count in the grid)`, a stable
\* sort of the set's iteration order by how often the value is in the grid.
_get_ordered_values(options, rows) ==
  LET it == SetIter(options)
      n == Len(it)
      value_counts(v) == Cardinality({rc \in Cells : rows[rc[1]][rc[2]] = v})
      before(i, j) == \/ value_counts(it[i]) < value_counts(it[j])
                      \/ value_counts(it[i]) = value_counts(it[j]) /\ i < j
  IN  [k \in 1..n |->
         it[CHOOSE i \in 1..n : Cardinality({j \in 1..n : before(j, i)}) = k - 1]]

\* ------------------------------------------------------------- the inputs

\* The grids a caller passes to solve. Cells are named 1-based.
SolvedInput == ListGrid(BaseGrid)

\* One empty cell, a naked single.
OneBlankInput == ListGrid(Blank(BaseGrid, {<<1, 1>>}))

\* Solved by propagation alone: naked singles, then hidden singles in rows
\* and in columns.
HiddenInput ==
  ListGrid(Blank(BaseGrid,
    {<<1, 4>>, <<1, 5>>, <<1, 6>>, <<3, 4>>, <<3, 7>>, <<3, 8>>, <<6, 7>>,
     <<6, 8>>, <<7, 4>>, <<7, 8>>, <<8, 5>>, <<8, 8>>, <<9, 5>>, <<9, 6>>,
     <<9, 7>>}))

\* No single anywhere: the search fills all 16 cells and backtracks twice.
SearchInput ==
  ListGrid(Blank(BaseGrid,
    {<<2, 8>>, <<2, 9>>, <<5, 7>>, <<5, 8>>, <<7, 1>>, <<7, 3>>, <<7, 7>>,
     <<7, 9>>, <<8, 4>>, <<8, 6>>, <<8, 7>>, <<8, 9>>, <<9, 1>>, <<9, 3>>,
     <<9, 4>>, <<9, 6>>}))

\* Consistent, with no completion: the search backtracks out of every branch.
UnsolvableInput ==
  ListGrid(With(Blank(BaseGrid,
    {<<4, 1>>, <<4, 2>>, <<4, 8>>, <<5, 2>>, <<5, 7>>, <<5, 8>>, <<6, 2>>,
     <<6, 8>>, <<7, 1>>, <<7, 7>>, <<8, 1>>, <<8, 7>>, <<9, 1>>, <<9, 7>>}),
    {<<4, 7, 2>>}))

\* Consistent, with no completion, and a cell without candidates at once.
DeadEndInput ==
  ListGrid(With(Blank(BaseGrid, {<<1, 7>>, <<6, 9>>}), {<<6, 7, 7>>}))

\* tests/test_solver.py, test_invalid_puzzle_constraint: two 1's in a row.
DuplicateRowInput == ListGrid(With(ZeroGrid, {<<1, 1, 1>>, <<1, 2, 1>>}))

DuplicateColumnInput == ListGrid(With(ZeroGrid, {<<1, 1, 1>>, <<5, 1, 1>>}))

DuplicateBoxInput == ListGrid(With(ZeroGrid, {<<1, 1, 1>>, <<2, 2, 1>>}))

\* tests/test_solver.py, test_invalid_puzzle_format: None, [], [[1, 2, 3]].
EmptyListInput == ListGrid(<<>>)

ShortGridInput == ListGrid(<< <<1, 2, 3>> >>)

EightRowsInput == ListGrid(SubSeq(BaseGrid, 1, N - 1))

ShortRowInput == ListGrid([BaseGrid EXCEPT ![4] = <<2, 3, 4>>])

TooLargeCellInput == ListGrid(With(BaseGrid, {<<2, 2, 10>>}))

NegativeCellInput == ListGrid(With(ZeroGrid, {<<3, 3, 0 - 1>>}))

NonIntCellInput ==
  [isNone |-> FALSE, rows |-> Blank(BaseGrid, {<<2, 3>>}), nonInt |-> {<<2, 3>>}]

\* Another completed grid: the transpose of the first.
TransposedInput == ListGrid([r \in Idx |-> [c \in Idx |-> BaseGrid[c][r]]])

ValidInputs ==
  {SolvedInput, TransposedInput, OneBlankInput, HiddenInput, SearchInput, UnsolvableInput,
   DeadEndInput}

InvalidInputs ==
  {NoneGrid, EmptyListInput, ShortGridInput, EightRowsInput, ShortRowInput,
   TooLargeCellInput, NegativeCellInput, NonIntCellInput, DuplicateRowInput,
   DuplicateColumnInput, DuplicateBoxInput}

Inputs == ValidInputs \cup InvalidInputs

\* ---------------------------------------------------------------- state

VARIABLES
  max_backtracks,    \* self.max_backtracks, fixed at construction
  backtrack_count,   \* self.backtrack_count
  constraint_checks, \* self.constraint_checks
  attempts_count,    \* self.attempts_count
  pc,                \* where the solver is: "idle" between calls
  calls,             \* solve calls made so far on this instance
  grid,              \* the caller's grid object, the argument of solve
  working_grid,      \* solve's working_grid (rows), <<>> while there is none
  changed,           \* _preprocess's changed
  iterations,        \* _preprocess's iterations
  pos,               \* position (0..81) of the naked-single scan in its pass
  hidden,            \* locals of _apply_hidden_singles: changed, line, value,
                     \* empty_cells, column_values
  stack,             \* active _solve_recursive invocations inside their
                     \* loop: <<[row, col, values, entry]>>, values still
                     \* to try, the head being the one placed; entry is
                     \* history: the working grid when the invocation began
  retval,            \* what the _solve_recursive that just returned returned
  outcome,           \* of the last solve call: "none", "running", "returned",
                     \* "raised"
  result,            \* the grid object the last solve call returned
  stats,             \* the last get_stats() snapshot; held is FALSE when
                     \* the caller holds none
  passed,            \* history: the grid value as the caller passed it
  validity_checks,   \* history: _is_valid_state runs of the current call
  budget_hit,        \* history: the budget guard fired in the current call
  last_completed,    \* history: the counters when a solve call last returned
  first              \* history: input, result and counters of the first
                     \* solve call that returned; set is FALSE before

vars ==
  <<max_backtracks, backtrack_count, constraint_checks, attempts_count, pc,
    calls, grid, working_grid, changed, iterations, pos, hidden, stack,
    retval, outcome, result, stats, passed, validity_checks, budget_hit,
    last_completed, first>>

config == <<max_backtracks>>

counters == <<backtrack_count, constraint_checks, attempts_count>>

prelocals == <<changed, iterations, pos, hidden>>

history == <<passed, validity_checks, budget_hit, last_completed, first>>

NoStats ==
  [held |-> FALSE, backtrack_count |-> 0, attempts_count |-> 0,
   constraint_checks |-> 0]

NoFirst ==
  [set |-> FALSE, input |-> NoneGrid, result |-> NoneGrid,
   counters |-> <<0, 0, 0>>]

NoHidden ==
  [changed |-> FALSE, line |-> 0, value |-> 0, empty_cells |-> <<>>,
   column_values |-> <<>>]

\* SudokuSolver.__init__: the counters start at 0; max_backtracks is what
\* the caller gave, which the constructor takes unchecked.
Init ==
  /\ max_backtracks \in {0, SmallBudget, DefaultMaxBacktracks}
  /\ backtrack_count = 0
  /\ constraint_checks = 0
  /\ attempts_count = 0
  /\ pc = "idle"
  /\ calls = 0
  /\ grid = NoneGrid
  /\ working_grid = <<>>
  /\ changed = FALSE
  /\ iterations = 0
  /\ pos = 0
  /\ hidden = NoHidden
  /\ stack = <<>>
  /\ retval = FALSE
  /\ outcome = "none"
  /\ result = NoneGrid
  /\ stats = NoStats
  /\ passed = NoneGrid
  /\ validity_checks = 0
  /\ budget_hit = FALSE
  /\ last_completed = <<0, 0, 0>>
  /\ first = NoFirst

\* Fault variant of Store: `working_grid = grid` in place of the deepcopy,
\* the working grid and the caller's grid being one list object.
StoreAliased(row, col, value) ==
  /\ working_grid' = [working_grid EXCEPT ![row][col] = value]
  /\ grid' = [grid EXCEPT !.rows[row][col] = value]

\* `grid[row][col] = value` on the working copy: copy.deepcopy gave solve a
\* list object of its own, so the caller's object is not written.
Store(row, col, value) ==
  /\ working_grid' = [working_grid EXCEPT ![row][col] = value]
  /\ UNCHANGED grid

\* ------------------------------------------------------------------ solve

\* solve, lines 21-22: _is_valid_input(grid), which runs _is_valid_state
\* (and so counts a check) once the format checks pass, and the ValueError.
solve(g) ==
  /\ pc = "idle"
  /\ calls < MaxCalls
  /\ calls' = calls + 1
  /\ grid' = g
  /\ passed' = g
  /\ constraint_checks' = IF FormatOk(g) THEN constraint_checks + 1
                          ELSE constraint_checks
  /\ validity_checks' = IF FormatOk(g) THEN 1 ELSE 0
  /\ budget_hit' = FALSE
  /\ result' = NoneGrid
  /\ stats' = NoStats
  /\ working_grid' = <<>>
  /\ IF _is_valid_input(g)
     THEN pc' = "reset_backtrack" /\ outcome' = "running"
     ELSE pc' = "idle" /\ outcome' = "raised"
  /\ UNCHANGED <<config, backtrack_count, attempts_count, prelocals, stack,
                 retval, last_completed, first>>

\* Fault variant of ResetBacktrackCount: line 25 left out.
ResetBacktrackCountSkipped ==
  /\ pc = "reset_backtrack"
  /\ pc' = "reset_checks"
  /\ UNCHANGED <<config, counters, calls, grid, working_grid, prelocals,
                 stack, retval, outcome, result, stats, history>>

\* solve, line 25.
ResetBacktrackCount ==
  /\ pc = "reset_backtrack"
  /\ backtrack_count' = 0
  /\ pc' = "reset_checks"
  /\ UNCHANGED <<config, constraint_checks, attempts_count, calls, grid,
                 working_grid, prelocals, stack, retval, outcome, result,
                 stats, history>>

\* solve, line 26.
ResetConstraintChecks ==
  /\ pc = "reset_checks"
  /\ constraint_checks' = 0
  /\ pc' = "reset_attempts"
  /\ UNCHANGED <<config, backtrack_count, attempts_count, calls, grid,
                 working_grid, prelocals, stack, retval, outcome, result,
                 stats, history>>

\* solve, lines 27-33, and _preprocess, lines 101-103: the last counter is
\* reset, the working copy is made and _preprocess is entered.
ResetAttemptsCount ==
  /\ pc = "reset_attempts"
  /\ attempts_count' = 0
  /\ working_grid' = grid.rows
  /\ changed' = TRUE
  /\ iterations' = 0
  /\ pc' = "pre_loop"
  /\ UNCHANGED <<config, backtrack_count, constraint_checks, calls, grid, pos,
                 hidden, stack, retval, outcome, result, stats, history>>

\* get_stats, between calls (solve_time, a wall-clock reading, is left out).
get_stats ==
  /\ pc = "idle"
  /\ stats' = [held |-> TRUE,
               backtrack_count |-> backtrack_count,
               attempts_count |-> attempts_count,
               constraint_checks |-> constraint_checks]
  /\ UNCHANGED <<config, counters, pc, calls, grid, working_grid, prelocals,
                 stack, retval, outcome, result, history>>

\* ------------------------------------------------------------ _preprocess

\* `while changed and iterations < max_iterations`, lines 105-107; when the
\* loop ends _preprocess returns and solve calls _solve_recursive (line 36).
PreprocessLoop ==
  /\ pc = "pre_loop"
  /\ IF changed /\ iterations < max_iterations
     THEN /\ changed' = FALSE
          /\ iterations' = iterations + 1
          /\ pos' = 0
          /\ pc' = "naked"
     ELSE /\ pc' = "call"
          /\ UNCHANGED <<changed, iterations, pos>>
  /\ UNCHANGED <<config, counters, calls, grid, working_grid, hidden, stack,
                 retval, outcome, result, stats, history>>

\* The first position from idx on whose cell is empty with exactly one
\* possible value, N * N when the pass has none left (lines 110-114).
NextNaked(rows, idx) ==
  LET singles ==
        {i \in idx..(N * N - 1) :
           /\ rows[ScanCell(i)[1]][ScanCell(i)[2]] = 0
           /\ Cardinality(_get_possible_values(rows, ScanCell(i)[1],
                                               ScanCell(i)[2])) = 1}
  IN  IF singles = {} THEN N * N
      ELSE CHOOSE i \in singles : \A j \in singles : i <= j

\* Method 1, lines 110-117: the scan moves on to the next naked single and
\* places its only possible value.
NakedSingle ==
  /\ pc = "naked"
  /\ LET idx == NextNaked(working_grid, pos)
     IN  /\ idx < N * N
         /\ LET row == ScanCell(idx)[1]
                col == ScanCell(idx)[2]
                possible == _get_possible_values(working_grid, row, col)
            IN  Store(row, col, CHOOSE value \in possible : TRUE)
         /\ changed' = TRUE
         /\ pos' = idx + 1
  /\ UNCHANGED <<config, counters, pc, calls, iterations, hidden, stack,
                 retval, outcome, result, stats, history>>

\* The naked-single scan of the pass runs out; lines 122-123: hidden singles
\* are tried when the pass placed nothing.
NakedPassEnd ==
  /\ pc = "naked"
  /\ NextNaked(working_grid, pos) = N * N
  /\ IF ~changed
     THEN /\ pc' = "hidden_rows"
          /\ hidden' = [NoHidden EXCEPT !.line = 1, !.value = 1]
     ELSE /\ pc' = "pre_loop"
          /\ UNCHANGED hidden
  /\ UNCHANGED <<config, counters, calls, grid, working_grid, changed,
                 iterations, pos, stack, retval, outcome, result, stats,
                 history>>

\* `[(row, col) for col in range(9) if grid[row][col] == 0]`, line 133.
EmptyInRow(rows, row) ==
  SelectSeq([c \in Idx |-> <<row, c>>], LAMBDA rc : rows[rc[1]][rc[2]] = 0)

\* `[(row, col) for row in range(9) if grid[row][col] == 0]`, line 151.
EmptyInColumn(rows, col) ==
  SelectSeq([r \in Idx |-> <<r, col>>], LAMBDA rc : rows[rc[1]][rc[2]] = 0)

\* possible_cells, lines 137-140 and 156-159.
PossibleCells(rows, empty_cells, value) ==
  SelectSeq(empty_cells,
            LAMBDA rc : value \in _get_possible_values(rows, rc[1], rc[2]))

\* Fault variant of HiddenInRow: `len(possible_cells) >= 1` in place of
\* `== 1` (line 142), the value going to the first cell that can hold it.
RECURSIVE HiddenInRowFirstFit(_, _, _, _)
HiddenInRowFirstFit(rows, row, value, empty_cells) ==
  IF Len(empty_cells) <= 1 \/ value > 9 THEN [found |-> FALSE]
  ELSE IF /\ \A c \in Idx : rows[row][c] # value
          /\ Len(PossibleCells(rows, empty_cells, value)) >= 1
       THEN [found |-> TRUE, line |-> row, value |-> value,
             cell |-> PossibleCells(rows, empty_cells, value)[1],
             empty_cells |-> empty_cells]
       ELSE HiddenInRowFirstFit(rows, row, value + 1, empty_cells)

\* The value loop of one row (lines 135-145) from value on: the next
\* placement it makes, or found |-> FALSE. empty_cells is the list made when
\* the row was entered; `value not in grid[row]` reads the row as it is now.
RECURSIVE HiddenInRow(_, _, _, _)
HiddenInRow(rows, row, value, empty_cells) ==
  IF Len(empty_cells) <= 1 \/ value > 9 THEN [found |-> FALSE]
  ELSE IF /\ \A c \in Idx : rows[row][c] # value
          /\ Len(PossibleCells(rows, empty_cells, value)) = 1
       THEN [found |-> TRUE, line |-> row, value |-> value,
             cell |-> PossibleCells(rows, empty_cells, value)[1],
             empty_cells |-> empty_cells]
       ELSE HiddenInRow(rows, row, value + 1, empty_cells)

\* The row loop of _apply_hidden_singles (lines 132-145) from (row, value)
\* on: the rest of the row the loop is in, then the first later row that
\* places something, each entered with its empty_cells made afresh.
NextHiddenInRow(rows, row, value, empty_cells) ==
  LET here == IF row > N THEN [found |-> FALSE]
              ELSE HiddenInRow(rows, row, value,
                               IF value = 1 THEN EmptyInRow(rows, row)
                               ELSE empty_cells)
      later == {r \in (row + 1)..N :
                  HiddenInRow(rows, r, 1, EmptyInRow(rows, r)).found}
  IN  IF here.found THEN here
      ELSE IF later = {} THEN [found |-> FALSE]
      ELSE LET r == CHOOSE r \in later : \A q \in later : r <= q
           IN  HiddenInRow(rows, r, 1, EmptyInRow(rows, r))

\* The value loop of one column (lines 154-164): as for a row, but `value
\* not in column_values` reads the list made when the column was entered.
RECURSIVE HiddenInColumn(_, _, _, _, _)
HiddenInColumn(rows, col, value, empty_cells, column_values) ==
  IF Len(empty_cells) <= 1 \/ value > 9 THEN [found |-> FALSE]
  ELSE IF /\ \A r \in Idx : column_values[r] # value
          /\ Len(PossibleCells(rows, empty_cells, value)) = 1
       THEN [found |-> TRUE, line |-> col, value |-> value,
             cell |-> PossibleCells(rows, empty_cells, value)[1],
             empty_cells |-> empty_cells, column_values |-> column_values]
       ELSE HiddenInColumn(rows, col, value + 1, empty_cells, column_values)

\* `[grid[row][col] for row in range(9)]`, line 153.
ColumnValues(rows, col) == [r \in Idx |-> rows[r][col]]

\* The column loop (lines 150-164) from (col, value) on.
NextHiddenInColumn(rows, col, value, empty_cells, column_values) ==
  LET here == IF col > N THEN [found |-> FALSE]
              ELSE HiddenInColumn(rows, col, value,
                                  IF value = 1 THEN EmptyInColumn(rows, col)
                                  ELSE empty_cells,
                                  IF value = 1 THEN ColumnValues(rows, col)
                                  ELSE column_values)
      later == {c \in (col + 1)..N :
                  HiddenInColumn(rows, c, 1, EmptyInColumn(rows, c),
                                 ColumnValues(rows, c)).found}
  IN  IF here.found THEN here
      ELSE IF later = {} THEN [found |-> FALSE]
      ELSE LET c == CHOOSE c \in later : \A q \in later : c <= q
           IN  HiddenInColumn(rows, c, 1, EmptyInColumn(rows, c),
                              ColumnValues(rows, c))

\* Lines 142-145: the row loop moves on to its next hidden single and
\* places it.
HiddenRowSingle ==
  /\ pc = "hidden_rows"
  /\ LET next == NextHiddenInRow(working_grid, hidden.line, hidden.value,
                                 hidden.empty_cells)
     IN  /\ next.found
         /\ Store(next.cell[1], next.cell[2], next.value)
         /\ hidden' = [hidden EXCEPT !.changed = TRUE, !.line = next.line,
                                     !.value = next.value + 1,
                                     !.empty_cells = next.empty_cells]
  /\ UNCHANGED <<config, counters, pc, calls, changed, iterations, pos, stack,
                 retval, outcome, result, stats, history>>

\* The row loop runs out; the column loop starts (line 150).
HiddenRowsEnd ==
  /\ pc = "hidden_rows"
  /\ ~NextHiddenInRow(working_grid, hidden.line, hidden.value,
                      hidden.empty_cells).found
  /\ pc' = "hidden_columns"
  /\ hidden' = [hidden EXCEPT !.line = 1, !.value = 1, !.empty_cells = <<>>]
  /\ UNCHANGED <<config, counters, calls, grid, working_grid, changed,
                 iterations, pos, stack, retval, outcome, result, stats,
                 history>>

\* Lines 161-164: the column loop moves on to its next hidden single and
\* places it.
HiddenColumnSingle ==
  /\ pc = "hidden_columns"
  /\ LET next == NextHiddenInColumn(working_grid, hidden.line, hidden.value,
                                    hidden.empty_cells, hidden.column_values)
     IN  /\ next.found
         /\ Store(next.cell[1], next.cell[2], next.value)
         /\ hidden' = [hidden EXCEPT !.changed = TRUE, !.line = next.line,
                                     !.value = next.value + 1,
                                     !.empty_cells = next.empty_cells,
                                     !.column_values = next.column_values]
  /\ UNCHANGED <<config, counters, pc, calls, changed, iterations, pos, stack,
                 retval, outcome, result, stats, history>>

\* The column loop runs out: _apply_hidden_singles returns its changed
\* (line 168), which _preprocess takes as its own (line 123).
HiddenColumnsEnd ==
  /\ pc = "hidden_columns"
  /\ ~NextHiddenInColumn(working_grid, hidden.line, hidden.value,
                         hidden.empty_cells, hidden.column_values).found
  /\ changed' = hidden.changed
  /\ hidden' = NoHidden
  /\ pc' = "pre_loop"
  /\ UNCHANGED <<config, counters, calls, grid, working_grid, iterations, pos,
                 stack, retval, outcome, result, stats, history>>

\* -------------------------------------------------------- _solve_recursive

\* Fault variant of BudgetExhausted: `>` in place of `>=`.
BudgetExhaustedStrict == backtrack_count > max_backtracks

\* Line 259: `self.backtrack_count >= self.max_backtracks`.
BudgetExhausted == backtrack_count >= max_backtracks

\* Fault variant of Verdict: a cell without options taken for success.
VerdictDeadAsSolved(best) ==
  IF best.cell = <<>> \/ best.options = {} THEN "solved" ELSE "try"

\* Fault variant of Verdict: `if not options` (line 269) tested before
\* `if cell is None` (line 266); _find_best_cell gives (None, set()).
VerdictOptionsFirst(best) ==
  IF best.options = {} THEN "dead"
  ELSE IF best.cell = <<>> THEN "solved"
  ELSE "try"

\* Lines 266-270 on what _find_best_cell gave: no cell is success ("solved"),
\* a cell without options is failure ("dead"), else the values are tried.
Verdict(best) ==
  IF best.cell = <<>> THEN "solved"
  ELSE IF best.options = {} THEN "dead"
  ELSE "try"

\* An invocation is entered, lines 259-275: the budget guard, then
\* _find_best_cell and, for a cell with options, the ordered values.
SolveRecursiveEnter ==
  /\ pc = "call"
  /\ IF BudgetExhausted
     THEN /\ retval' = FALSE
          /\ budget_hit' = TRUE
          /\ pc' = "return"
          /\ UNCHANGED stack
     ELSE LET best == _find_best_cell(working_grid)
          IN  /\ UNCHANGED budget_hit
              /\ IF Verdict(best) = "try"
                 THEN /\ stack' = Append(stack,
                            [row |-> best.cell[1], col |-> best.cell[2],
                             values |-> _get_ordered_values(best.options,
                                                            working_grid),
                             entry |-> working_grid])
                      /\ pc' = "loop"
                      /\ UNCHANGED retval
                 ELSE /\ retval' = (Verdict(best) = "solved")
                      /\ pc' = "return"
                      /\ UNCHANGED stack
  /\ UNCHANGED <<config, counters, calls, grid, working_grid, prelocals,
                 outcome, result, stats, passed, validity_checks,
                 last_completed, first>>

\* Fault variant of TryValue: the attempt (line 277) is not counted.
TryValueUncounted ==
  /\ pc = "loop"
  /\ stack[Len(stack)].values # <<>>
  /\ Store(stack[Len(stack)].row, stack[Len(stack)].col,
           Head(stack[Len(stack)].values))
  /\ pc' = "check"
  /\ UNCHANGED <<config, counters, calls, prelocals, stack, retval, outcome,
                 result, stats, history>>

\* Lines 275-277: the next value is placed and counted as an attempt.
TryValue ==
  /\ pc = "loop"
  /\ stack[Len(stack)].values # <<>>
  /\ Store(stack[Len(stack)].row, stack[Len(stack)].col,
           Head(stack[Len(stack)].values))
  /\ attempts_count' = attempts_count + 1
  /\ pc' = "check"
  /\ UNCHANGED <<config, backtrack_count, constraint_checks, calls, prelocals,
                 stack, retval, outcome, result, stats, history>>

\* Lines 280-291: _is_valid_state on the grid with the value in it; a valid
\* grid recurses, an invalid one takes the value out again and goes on with
\* the next value, without counting a backtrack.
CheckPlacement ==
  /\ pc = "check"
  /\ constraint_checks' = constraint_checks + 1
  /\ validity_checks' = validity_checks + 1
  /\ IF _is_valid_state(working_grid)
     THEN /\ pc' = "call"
          /\ UNCHANGED <<grid, working_grid, stack>>
     ELSE /\ Store(stack[Len(stack)].row, stack[Len(stack)].col, 0)
          /\ stack' = [stack EXCEPT ![Len(stack)].values = Tail(@)]
          /\ pc' = "loop"
  /\ UNCHANGED <<config, backtrack_count, attempts_count, calls, prelocals,
                 retval, outcome, result, stats, passed, budget_hit,
                 last_completed, first>>

\* Line 293: the values are used up, the invocation returns False.
LoopExhausted ==
  /\ pc = "loop"
  /\ stack[Len(stack)].values = <<>>
  /\ stack' = SubSeq(stack, 1, Len(stack) - 1)
  /\ retval' = FALSE
  /\ pc' = "return"
  /\ UNCHANGED <<config, counters, calls, grid, working_grid, prelocals,
                 outcome, result, stats, history>>

\* Fault variant of Backtrack: the reset of the cell (line 291) left out.
BacktrackNoUndo ==
  /\ pc = "return"
  /\ stack # <<>>
  /\ ~retval
  /\ backtrack_count' = backtrack_count + 1
  /\ stack' = [stack EXCEPT ![Len(stack)].values = Tail(@)]
  /\ pc' = "loop"
  /\ UNCHANGED <<config, constraint_checks, attempts_count, calls, grid,
                 working_grid, prelocals, retval, outcome, result, stats,
                 history>>

\* Lines 284-291, the recursive call returned False: the backtrack is
\* counted and the value taken out; the loop goes on.
Backtrack ==
  /\ pc = "return"
  /\ stack # <<>>
  /\ ~retval
  /\ backtrack_count' = backtrack_count + 1
  /\ Store(stack[Len(stack)].row, stack[Len(stack)].col, 0)
  /\ stack' = [stack EXCEPT ![Len(stack)].values = Tail(@)]
  /\ pc' = "loop"
  /\ UNCHANGED <<config, constraint_checks, attempts_count, calls, prelocals,
                 retval, outcome, result, stats, history>>

\* Lines 284-285, the recursive call returned True: so does this one, with
\* the value left in place.
PropagateSuccess ==
  /\ pc = "return"
  /\ stack # <<>>
  /\ retval
  /\ stack' = SubSeq(stack, 1, Len(stack) - 1)
  /\ UNCHANGED <<config, counters, pc, calls, grid, working_grid, prelocals,
                 retval, outcome, result, stats, history>>

\* solve, lines 36-46: the outermost _solve_recursive returned; solve
\* returns the working grid on success and None otherwise.
SolveReturn ==
  /\ pc = "return"
  /\ stack = <<>>
  /\ result' = IF retval THEN ListGrid(working_grid) ELSE NoneGrid
  /\ outcome' = "returned"
  /\ pc' = "idle"
  /\ last_completed' = <<backtrack_count, attempts_count, constraint_checks>>
  /\ first' = IF first.set THEN first
              ELSE [set |-> TRUE, input |-> passed,
                    result |-> IF retval THEN ListGrid(working_grid)
                               ELSE NoneGrid,
                    counters |-> <<backtrack_count, attempts_count,
                                   constraint_checks>>]
  /\ UNCHANGED <<config, counters, calls, grid, working_grid, prelocals,
                 stack, retval, stats, passed, validity_checks, budget_hit>>

Next ==
  \/ \E g \in Inputs : solve(g)
  \/ ResetBacktrackCount
  \/ ResetConstraintChecks
  \/ ResetAttemptsCount
  \/ PreprocessLoop
  \/ NakedSingle
  \/ NakedPassEnd
  \/ HiddenRowSingle
  \/ HiddenRowsEnd
  \/ HiddenColumnSingle
  \/ HiddenColumnsEnd
  \/ SolveRecursiveEnter
  \/ TryValue
  \/ CheckPlacement
  \/ LoopExhausted
  \/ Backtrack
  \/ PropagateSuccess
  \/ SolveReturn
  \/ get_stats

Spec == Init /\ [][Next]_vars

\* ================================================================ claims

\* True and False of the last call: it returned (a grid or None).
Returned == pc = "idle" /\ outcome = "returned"

ReturnedGrid == Returned /\ ~result.isNone

\* Two distinct cells of one row, one column or one box.
Peers(a, b) ==
  /\ a # b
  /\ \/ a[1] = b[1]
     \/ a[2] = b[2]
     \/ BoxStart(a[1]) = BoxStart(b[1]) /\ BoxStart(a[2]) = BoxStart(b[2])

PeerPairs == {p \in Cells \X Cells : Peers(p[1], p[2])}

\* No nonzero value twice in a row, a column or a box.
Consistent(rows) ==
  \A p \in PeerPairs :
     rows[p[1][1]][p[1][2]] # 0 => rows[p[1][1]][p[1][2]] # rows[p[2][1]][p[2][2]]

\* Every cell in 1..9, and every row, column and box holds each digit of
\* 1..9 exactly once.
Solved(rows) ==
  /\ \A rc \in Cells : rows[rc[1]][rc[2]] \in Digits
  /\ \A d \in Digits :
       /\ \A r \in Idx : Cardinality({c \in Idx : rows[r][c] = d}) = 1
       /\ \A c \in Idx : Cardinality({r \in Idx : rows[r][c] = d}) = 1
       /\ \A br \in {0, 3, 6} : \A bc \in {0, 3, 6} :
            Cardinality({rc \in Cells : /\ BoxStart(rc[1]) = br
                                        /\ BoxStart(rc[2]) = bc
                                        /\ rows[rc[1]][rc[2]] = d}) = 1

\* C1: whatever solve returns is None or a fully filled grid, every cell in
\* 1..9 and every row, column and box holding each digit exactly once; the
\* tests' oracle, SudokuValidator.is_valid_solution, accepts it.
C1_ReturnedGridIsSolved ==
  ReturnedGrid => Solved(result.rows) /\ is_valid_solution(result.rows)

\* C1 witness: a grid came back from a search that placed and undid values.
C1_Witness ==
  ReturnedGrid /\ passed = SearchInput /\ backtrack_count > 0

\* The inputs C2 lists as acceptable: a grid that is there, of exactly 9
\* rows of exactly 9 cells, each an integer in 0..9, with no nonzero value
\* twice in a row, a column or a box.
Acceptable(g) ==
  /\ ~g.isNone
  /\ Len(g.rows) = 9
  /\ \A r \in 1..9 : Len(g.rows[r]) = 9
  /\ \A rc \in Cells : rc \notin g.nonInt /\ g.rows[rc[1]][rc[2]] \in 0..9
  /\ Consistent(g.rows)

\* C2: solve raises ValueError, and returns no grid, for exactly the inputs
\* that are not acceptable; stated where a call has just been let in or
\* turned away, and where it has ended.
C2_RejectsExactlyInvalidInput ==
  calls > 0 =>
    /\ outcome = "raised" => result.isNone /\ pc = "idle"
    /\ pc \in {"idle", "reset_backtrack"} =>
         ((outcome = "raised") <=> ~Acceptable(passed))

\* C2 witness: a well-formed grid was rejected for a duplicate in a box.
C2_Witness == outcome = "raised" /\ passed = DuplicateBoxInput

\* C3: the caller's grid is, at every point of every call, as it was passed.
C3_CallerGridUnchanged == grid = passed

\* C3 witness: a call ended whose search placed and undid values and whose
\* result differs from the caller's grid.
C3_Witness ==
  ReturnedGrid /\ backtrack_count > 0 /\ result.rows # grid.rows

\* Some completion of rows: every empty cell filled with a digit no peer
\* holds.
RECURSIVE CanComplete(_)
CanComplete(rows) ==
  LET empties == {rc \in Cells : rows[rc[1]][rc[2]] = 0}
  IN  IF empties = {} THEN Consistent(rows)
      ELSE LET rc == CHOOSE e \in empties : TRUE
               held == {rows[p[1]][p[2]] : p \in {q \in Cells : Peers(rc, q)}}
           IN  \E d \in Digits \ held :
                  CanComplete([rows EXCEPT ![rc[1]][rc[2]] = d])

HasCompletion(rows) == Consistent(rows) /\ CanComplete(rows)

\* C4: when the budget guard never fired in the call, solve returns a grid
\* exactly when the input has a completion, and the grid is a completion of
\* the input: solved, and equal to the input on its nonzero cells.
C4_SolvesExactlySolvable ==
  (Returned /\ ~budget_hit) =>
    /\ ~result.isNone <=> HasCompletion(passed.rows)
    /\ ~result.isNone =>
         /\ Solved(result.rows)
         /\ \A rc \in Cells :
              passed.rows[rc[1]][rc[2]] # 0 =>
                result.rows[rc[1]][rc[2]] = passed.rows[rc[1]][rc[2]]

\* C4 witness: a puzzle that propagation left open was solved by a search
\* that backtracked, within the budget.
C4_Witness ==
  ReturnedGrid /\ ~budget_hit /\ passed = SearchInput /\ backtrack_count = 2

\* C5: a completed valid grid, solved with a positive max_backtracks, comes
\* back cell for cell, with no attempt and no backtrack counted.
C5_SolvedInputComesBack ==
  (Returned /\ max_backtracks > 0 /\ Solved(passed.rows)) =>
    /\ ~result.isNone
    /\ result.rows = passed.rows
    /\ attempts_count = 0
    /\ backtrack_count = 0

\* C5 witness: a completed grid was solved under the small budget.
C5_Witness ==
  ReturnedGrid /\ passed = TransposedInput /\ max_backtracks = SmallBudget

\* C6, as claimed: after a solve call that ran _is_valid_state at least once
\* (the run of _is_valid_input included), constraint_checks is at least 1.
C6_ChecksAreCounted ==
  (pc = "idle" /\ calls > 0 /\ validity_checks >= 1) => constraint_checks >= 1

\* C7, as claimed: a call rejected after some call returned leaves the
\* counters as that call left them.
C7_RejectedCallKeepsCounters ==
  (outcome = "raised" /\ first.set) =>
    <<backtrack_count, attempts_count, constraint_checks>> = last_completed

\* C8: attempts_count >= backtrack_count >= 0 at every point, and in every
\* get_stats snapshot.
C8_AttemptsCoverBacktracks ==
  /\ attempts_count >= backtrack_count
  /\ backtrack_count >= 0
  /\ stats.held =>
       stats.attempts_count >= stats.backtrack_count /\ stats.backtrack_count >= 0

\* C8 witness: between the resets of a later call, after a call that
\* backtracked, and a snapshot with backtracks in it.
C8_Witness ==
  \/ pc = "reset_checks" /\ attempts_count > 0 /\ calls > 1
  \/ stats.held /\ stats.backtrack_count > 0

\* C9: a call that returns on the input of the first call that returned
\* gives the same result and the same counters, whatever was called between.
C9_SameInputSameResult ==
  (Returned /\ first.set /\ passed = first.input) =>
    /\ result = first.result
    /\ <<backtrack_count, attempts_count, constraint_checks>> = first.counters

\* C9 witness: the third call repeats the first, a searched puzzle, after a
\* call that left other counters.
C9_Witness ==
  /\ Returned /\ calls = 3 /\ passed = SearchInput /\ first.input = SearchInput
  /\ backtrack_count > 0

\* C10: an invocation entered with the budget used up fails at once, no
\* cell selected and no value placed; from then on no invocation of the call
\* succeeds, and the call returns None.
C10_BudgetAborts ==
  [][/\ (pc = "call" /\ backtrack_count >= max_backtracks) =>
          /\ pc' = "return" /\ ~retval'
          /\ stack' = stack /\ working_grid' = working_grid
          /\ attempts_count' = attempts_count
     /\ (budget_hit' /\ pc' = "return") => ~retval'
     /\ (budget_hit' /\ outcome' = "returned") => result'.isNone]_vars

\* C10 witness: a puzzle the default budget solves came back None under the
\* small budget.
C10_Witness ==
  /\ Returned /\ budget_hit /\ result.isNone /\ passed = SearchInput
  /\ max_backtracks = SmallBudget

\* The j-th cell of the i-th box, both counted row-major from 1.
BoxCell(i, j) ==
  <<BoxSize * ((i - 1) \div BoxSize) + ((j - 1) \div BoxSize) + 1,
    BoxSize * ((i - 1) % BoxSize) + ((j - 1) % BoxSize) + 1>>

\* No row, column or box of rows holds a nonzero value at two places.
NoDuplicate(rows) ==
  \A i \in Idx : \A j \in Idx : \A k \in (j + 1)..N :
     /\ rows[i][j] = 0 \/ rows[i][j] # rows[i][k]
     /\ rows[j][i] = 0 \/ rows[j][i] # rows[k][i]
     /\ \/ rows[BoxCell(i, j)[1]][BoxCell(i, j)[2]] = 0
        \/ rows[BoxCell(i, j)[1]][BoxCell(i, j)[2]]
             # rows[BoxCell(i, k)[1]][BoxCell(i, k)[2]]

\* C11: from a valid input on, the working grid holds no nonzero value twice
\* in a row, a column or a box: not as copied from the input, and not after
\* any step that writes to it (naked single, hidden single, trial placement,
\* undo); and the check that follows a trial placement succeeds, the step
\* after it being the recursive call.
C11_WorkingGridConsistent ==
  [][/\ (working_grid' # working_grid /\ working_grid' # <<>>) =>
           NoDuplicate(working_grid')
     /\ pc = "check" => _is_valid_state(working_grid) /\ pc' = "call"]_vars

\* C11 witness: a trial value is in place, two invocations deep, and the
\* check is about to be made.
C11_Witness ==
  /\ pc = "check" /\ Len(stack) >= 2
  /\ working_grid[stack[Len(stack)].row][stack[Len(stack)].col]
       = Head(stack[Len(stack)].values)

\* The place of a cell in the row-major scan.
ScanIndex(rc) == N * (rc[1] - 1) + rc[2]

\* The cell of S the scan meets first.
FirstInScan(S) == CHOOSE rc \in S : \A q \in S : ScanIndex(rc) <= ScanIndex(q)

EmptyCells(rows) == {rc \in Cells : rows[rc[1]][rc[2]] = 0}

\* How many values the empty cell rc can take.
CandidateCount(rows, rc) == Cardinality(_get_possible_values(rows, rc[1], rc[2]))

\* The empty cells without a candidate.
DeadCells(rows) == {rc \in EmptyCells(rows) : CandidateCount(rows, rc) = 0}

\* An invocation of _solve_recursive is about to select a cell.
Selecting == pc = "call" /\ ~BudgetExhausted

\* C12, as claimed: when some empty cell has no candidate, _find_best_cell
\* returns the first such cell of the row-major scan, with the empty set.
C12_FirstDeadCellReturned ==
  (Selecting /\ DeadCells(working_grid) # {}) =>
    /\ _find_best_cell(working_grid).cell = FirstInScan(DeadCells(working_grid))
    /\ _find_best_cell(working_grid).options = {}

\* The empty cells other than rc that share its row, its column or its
\* box, each counted once.
EmptyPeers(rows, rc) == {q \in EmptyCells(rows) : Peers(rc, q)}

\* The empty cells with the fewest candidates.
Tied(rows) ==
  LET count == [rc \in EmptyCells(rows) |-> CandidateCount(rows, rc)]
  IN  {rc \in EmptyCells(rows) : \A q \in EmptyCells(rows) : count[rc] <= count[q]}

\* Of the cells of T, those with the most empty peers.
MostPeers(rows, T) ==
  LET degree == [rc \in T |-> Cardinality(EmptyPeers(rows, rc))]
  IN  {rc \in T : \A q \in T : degree[q] <= degree[rc]}

\* C13, as claimed: when several empty cells tie for the fewest candidates
\* (one or more each), the cell selected is the first in scan order of those
\* with the most empty peers, each peer counted once.
C13_MostPeersSelected ==
  (Selecting /\ DeadCells(working_grid) = {}
     /\ Cardinality(Tied(working_grid)) > 1) =>
    _find_best_cell(working_grid).cell
      = FirstInScan(MostPeers(working_grid, Tied(working_grid)))

\* C14: an invocation of _solve_recursive that returns failure leaves the
\* working grid as it was at its entry: one that returns before its loop
\* (budget guard, dead-end cell) has written nothing, and one whose values
\* are used up has reset each; an invocation that returns success undoes
\* nothing and leaves no empty cell.
C14_UndoOnFailure ==
  [][/\ (pc = "call" /\ pc' = "return") => working_grid' = working_grid
     /\ (pc = "loop" /\ pc' = "return") =>
           ~retval' /\ working_grid' = stack[Len(stack)].entry
     /\ (pc' = "return" /\ retval') =>
           working_grid' = working_grid /\ EmptyCells(working_grid') = {}]_vars

\* C14 witness: an invocation that tried its values has just returned
\* failure to a caller whose trial value is still in place.
C14_Witness ==
  /\ pc = "return" /\ ~retval /\ stack # <<>>
  /\ ~BudgetExhausted /\ DeadCells(working_grid) = {}
  /\ working_grid # stack[Len(stack)].entry
====
